---- MODULE Spec2Model ----
(***************************************************************************)
(* Model of BusPirateWifi (scripts/bus_pirate/bus_pirate_wifi.py): the     *)
(* adapter that turns a message-framed websocket into a line oriented,     *)
(* timeout bounded byte stream.                                            *)
(*                                                                         *)
(* Time is counted in ticks of 0.05 s, the smallest quantum the code uses. *)
(* The code reads the clock only through differences (deadline - now,      *)
(* now - last_data_time), so the model keeps those differences: rl_rem is  *)
(* deadline - now floored at 0 (the code only tests remaining <= 0 and     *)
(* min(remaining, 0.1)), idle is now - last_data_time capped one tick      *)
(* above the timeout it is compared with.  Time passes only inside the     *)
(* blocking calls (recv, time.sleep); the statements between them are      *)
(* instantaneous.                                                          *)
(***************************************************************************)
EXTENDS Integers, Sequences, FiniteSets, TLC

(* ---------------------------------------------------------------- bounds *)

\* Longest byte stream the device sends in one run.
MaxStream == 3
\* Longest byte stream of the runs in which every operation is called.
MaxShort == 2
\* Most bytes of the stream the device puts into one frame.
MaxFrame == 2
\* Most frames waiting at the transport at once.
MaxPending == 2
\* Most empty frames the device sends in one run.
MaxEmpty == 1
\* Largest timeout argument (in ticks) the callers pass.
MaxTimeout == 2
\* Largest timeout (in ticks) the callers pass to _readline and receive_raw.
MaxWait == 3
\* Largest skip count the callers pass.
MaxSkip == 2
\* Most _readline calls the caller makes in a run that records them.
MaxCalls == 3
\* Most bytes the adapter has not yet read when a chattering device sends
\* one more frame.
MaxBacklog == 2
\* Longest delay (in ticks) between two frames that counts as small.
SmallDelay == 2

(* ------------------------------------------------------ program constants *)

\* b"\n", the line terminator _readline looks for.
NL == 10
\* ">", the prompt marker.
GT == 62
\* " ", a whitespace character str.strip() removes.
SP == 32
\* min(remaining, 0.1): the pull quantum of _readline, in ticks.
ReadlineQuantum == 2
\* _pull_data(timeout=0.05) in _in_waiting, in ticks.
InWaitingQuantum == 1
\* settimeout(0.1) in flush, in ticks.
FlushQuantum == 2
\* min(0.1, silence_timeout) in receive_raw, in ticks.
RawQuantum == 2
\* timeout: float = 1.0 of __init__, in ticks.
DefaultTimeout == 20
\* timeout: float = 0.5 of receive, in ticks.
DefaultReceiveTimeout == 10

(* ------------------------------------------------------------ pure helpers *)

Min(a, b) == IF a <= b THEN a ELSE b
Max(a, b) == IF a >= b THEN a ELSE b

\* bytes.find(b"\n"): the 1-based index of the first newline, 0 when none.
RECURSIVE FindFrom(_, _)
FindFrom(bs, i) ==
    IF i > Len(bs) THEN 0
    ELSE IF bs[i] = NL THEN i
    ELSE FindFrom(bs, i + 1)

Find(bs) == FindFrom(bs, 1)

Take(s, n) == SubSeq(s, 1, Min(n, Len(s)))
Drop(s, n) == SubSeq(s, Min(n, Len(s)) + 1, Len(s))

\* str.encode("utf-8") of a sequence of code points below 2048.
RECURSIVE Encode(_)
Encode(cs) ==
    IF cs = <<>> THEN <<>>
    ELSE LET c == Head(cs)
         IN  (IF c < 128 THEN <<c>> ELSE <<192 + (c \div 64), 128 + (c % 64)>>)
             \o Encode(Tail(cs))

\* bytes.decode("utf-8", errors="ignore") for bytes below 224: one and two
\* byte forms decode, every byte that starts no valid form is dropped.
RECURSIVE Decode(_)
Decode(bs) ==
    IF bs = <<>> THEN <<>>
    ELSE LET b == Head(bs)
         IN  IF b < 128 THEN <<b>> \o Decode(Tail(bs))
             ELSE IF b >= 194 /\ b <= 223 /\ Len(bs) >= 2
                     /\ bs[2] >= 128 /\ bs[2] <= 191
                  THEN <<(b - 192) * 64 + (bs[2] - 128)>> \o Decode(Drop(bs, 2))
             ELSE Decode(Tail(bs))

\* The characters below 256 for which str.isspace() is true.
WhiteSpace == {9, 10, 11, 12, 13, 28, 29, 30, 31, 32, 133, 160}

RECURSIVE LStrip(_)
LStrip(cs) ==
    IF cs # <<>> /\ Head(cs) \in WhiteSpace THEN LStrip(Tail(cs)) ELSE cs

RECURSIVE RStrip(_)
RStrip(cs) ==
    IF cs # <<>> /\ cs[Len(cs)] \in WhiteSpace
    THEN RStrip(SubSeq(cs, 1, Len(cs) - 1))
    ELSE cs

\* str.strip()
Strip(cs) == RStrip(LStrip(cs))

\* .decode("utf-8", errors="ignore").strip() of a value _readline returned.
DecodeLine(bs) == Strip(Decode(bs))

\* str.endswith(">")
EndsWithPrompt(cs) == cs # <<>> /\ cs[Len(cs)] = GT

\* The bytes _pull_data appends for a frame: a text frame is encoded.
FrameBytes(f) == IF f.kind = "text" THEN Encode(f.data) ELSE f.data

\* A byte string the transport can hand over as a text frame: valid UTF-8.
ValidText(bs) == Encode(Decode(bs)) = bs

(* ------------------------------------------------------------------ state *)

VARIABLES
    buffer,       \* self._buffer
    ws_timeout,   \* the transport's receive timeout (ws.gettimeout())
    ws_state,     \* "open", "broken" (recv fails) or "closed" (after ws.close())
    self_timeout, \* self.timeout, the constructor's timeout
    pending,      \* frames that have arrived at the transport, not yet received
    future,       \* bytes the device has still to send
    empties,      \* empty frames the device may still send
    cuts,         \* frame sizes the device is bound to (<<>>: any split)
    chatter,      \* the device keeps sending "\n" frames, one per tick at most
    chat_ready,   \* a tick has passed since the last "\n" frame of the chatter
    max_gap,      \* most ticks between two frames of the stream (-1: any)
    stack,        \* call stack of the single caller: records [fn, pc]
    old_timeout,  \* old_timeout of the running _pull_data or flush
    waited,       \* ticks the running recv has waited
    rl_rem,       \* deadline - now of the running _readline
    ce_left,      \* iterations clear_echoes has left
    op_timeout,   \* timeout / silence_timeout of the running receive*
    max_bytes,    \* max_bytes of the running receive_raw (-1: None)
    result,       \* result / lines of the running receive / receive_all
    raw,          \* buf of the running receive_raw
    idle,         \* now - last_data_time of the running receive*
    ret_bytes,    \* the bytes the last _readline / receive_raw returned
    ret_len,      \* the number the last _in_waiting returned
    ret_lines,    \* the list the last receive / receive_all returned
    outcome,      \* of the last top-level call: "none" (running or never
                  \* called), "returned", "timeout" or "failure" (raised)
    top_op,       \* the operation the caller invoked last
    prev_op,      \* the operation the caller invoked before that
    args,         \* the arguments of the last top-level call
    t_before,     \* the transport timeout when the last top-level call began
    s_before,     \* buffer and transport when the last top-level call began
    caller2,      \* a second caller's _pull_data or flush: its position,
                  \* its old_timeout, the ticks its recv waited, what the
                  \* first caller was doing when it began, and whether the
                  \* two calls overlapped
    saw_timeout,  \* a recv of the last top-level call raised the timeout
    saw_failure,  \* a recv of the last top-level call raised another failure
    track,        \* the run records the histories below
    scen,         \* the scenario the run plays ("none": any input)
    wire,         \* "text": the device sends every frame it can as text
    stream0,      \* every byte the device sends in the run
    gap,          \* ticks since the call began or the last bytes arrived
    h_reads,      \* values _readline returned to the caller or the receive loop
    h_skipped,    \* values _readline returned to clear_echoes
    h_early,      \* bytes that arrived before op_timeout ticks of silence
    h_quiet,      \* op_timeout ticks of silence have passed in receive_raw
    elapsed       \* ticks since the last top-level _pull_data began

vars == <<buffer, ws_timeout, ws_state, self_timeout, pending, future, empties,
          cuts, chatter, chat_ready, max_gap, stack, old_timeout, waited,
          rl_rem, ce_left, op_timeout, max_bytes, result, raw, idle,
          ret_bytes, ret_len, ret_lines, outcome, top_op, prev_op, args,
          t_before, saw_timeout, saw_failure, track,
          scen, wire, stream0, gap, h_reads,
          h_skipped, h_early, h_quiet, s_before, caller2, elapsed>>

\* What is fixed when the run starts, and the second caller, whom no step
\* of the first caller or of the device touches.
config == <<self_timeout, chatter, max_gap, track, scen, wire, stream0,
            caller2>>
\* The transport and the device behind it.
transport == <<ws_state, pending, future, empties, cuts>>
\* What only the passing of time and the arrival of bytes change.
clocks == <<chat_ready, gap, h_early, h_quiet, elapsed>>
\* Locals of the running calls.
locals == <<rl_rem, ce_left, op_timeout, max_bytes, result, raw, idle>>
rets == <<ret_bytes, ret_len, ret_lines>>
\* What a top-level call sets when it begins.
calls == <<top_op, prev_op, args, t_before, s_before>>
reads == <<h_reads, h_skipped>>
\* What the recv calls of the last top-level call raised.
seen == <<saw_timeout, saw_failure>>

Streams(alpha, n) == UNION {[1..k -> alpha] : k \in 0..n}

Frame(kind, data) == [kind |-> kind, data |-> data]

Depth == Len(stack)
TopFrame == stack[Depth]
At(f, p) == Depth > 0 /\ TopFrame.fn = f /\ TopFrame.pc = p
Active(f) == \E i \in 1..Depth : stack[i].fn = f
Idle == stack = <<>>

Popped == SubSeq(stack, 1, Depth - 1)
WithPc(p) == [stack EXCEPT ![Depth].pc = p]
Call(fn, pc) == [fn |-> fn, pc |-> pc]

\* The outcome after the top frame returns: the call is over when it was the
\* only frame.
AfterReturn == IF Depth = 1 THEN "returned" ELSE outcome

NoArgs == [skip |-> 0, timeout |-> 0, max_bytes |-> -1]

\* The arguments of a top-level call, kept in recording runs.
Args(skip, timeout, limit) ==
    IF track THEN [skip |-> skip, timeout |-> timeout, max_bytes |-> limit]
    ELSE NoArgs

\* The buffer and the transport as a caller finds them.
Snapshot ==
    [buffer |-> buffer, pending |-> pending, ws_state |-> ws_state,
     ws_timeout |-> ws_timeout]

\* The caller invokes operation op: the bookkeeping of every top-level call.
\* The values earlier calls returned are no longer looked at.
Begin(op) ==
    /\ Idle
    /\ outcome' = "none"
    /\ top_op' = op
    /\ prev_op' = IF track THEN top_op ELSE prev_op
    /\ t_before' = ws_timeout
    /\ s_before' = IF track THEN Snapshot ELSE s_before
    /\ elapsed' = 0
    /\ saw_timeout' = FALSE
    /\ saw_failure' = FALSE
    /\ gap' = 0
    /\ h_quiet' = FALSE
    /\ ret_bytes' = <<>>
    /\ ret_len' = 0
    /\ ret_lines' = <<>>
    /\ UNCHANGED <<config, chat_ready, h_early>>

(* ------------------------------------------------------------- the clock *)

\* receive / receive_all / receive_raw have set last_data_time.
IdleRunning ==
    \E i \in 1..Depth :
        /\ stack[i].fn \in {"receive", "receive_all", "receive_raw"}
        /\ stack[i].pc # "start"

\* One tick (0.05 s) passes: every running deadline comes one tick closer
\* and every running last_data_time is one tick further back.  A device
\* bound to max_gap lets no more than max_gap ticks pass between frames.
Tick ==
    /\ max_gap = -1 \/ future = <<>> \/ gap < max_gap
    /\ rl_rem' = IF Active("_readline") THEN Max(rl_rem - 1, 0) ELSE rl_rem
    /\ idle' = IF IdleRunning THEN Min(idle + 1, op_timeout + 1) ELSE idle
    /\ gap' = IF max_gap # -1 \/ (track /\ Active("receive_raw"))
              THEN Min(gap + 1, Max(op_timeout, max_gap))
              ELSE gap
    /\ h_quiet' = (h_quiet \/ (track /\ Active("receive_raw")
                                 /\ gap + 1 >= op_timeout))
    /\ chat_ready' = chatter
    /\ elapsed' = IF track /\ top_op = "_pull_data"
                  THEN Min(elapsed + 1, args.timeout + 1)
                  ELSE elapsed
    /\ UNCHANGED h_early

(* ---------------------------------------------------------- the transport *)

\* The adapter reads the transport only in ws.recv() and lets time pass
\* only there and in time.sleep(): a frame that arrives while it runs from
\* one of these points to the next is a frame that has arrived when it
\* gets there.  Frames are delivered at these points and between calls.
Listening ==
    \/ Idle
    \/ At("_pull_data", "recv")
    \/ At("flush", "recv")
    \/ At("receive_all", "check")

\* The device sends the next k bytes of its stream as one frame, a text
\* frame (a str for recv) or a binary one (bytes for recv).
Arrive ==
    /\ Listening
    /\ ws_state # "closed"
    /\ Len(pending) < MaxPending
    /\ future # <<>>
    /\ \E k \in (IF cuts = <<>> THEN 1..Min(MaxFrame, Len(future))
                                ELSE {Head(cuts)}) :
         \E kind \in {"text", "bytes"} :
            LET bs == Take(future, k)
            IN  /\ kind = "text" => ValidText(bs)
                /\ (wire = "text" /\ ValidText(bs)) => kind = "text"
                /\ pending' = Append(pending,
                       Frame(kind, IF kind = "text" THEN Decode(bs) ELSE bs))
                /\ future' = Drop(future, k)
                /\ h_early' = IF track /\ ~h_quiet THEN h_early \o bs
                                                   ELSE h_early
    /\ cuts' = IF cuts = <<>> THEN cuts ELSE Tail(cuts)
    /\ gap' = 0
    /\ UNCHANGED <<buffer, ws_timeout, ws_state, empties, stack, old_timeout,
                   waited, locals, rets, outcome, calls, seen, config,
                   chat_ready, h_quiet, elapsed, reads>>

\* The device sends a frame with an empty payload.
ArriveEmpty ==
    /\ Listening
    /\ ws_state # "closed"
    /\ Len(pending) < MaxPending
    /\ empties > 0
    /\ empties' = empties - 1
    /\ pending' = Append(pending, Frame("text", <<>>))
    /\ UNCHANGED <<buffer, ws_timeout, ws_state, future, cuts, stack,
                   old_timeout, waited, locals, rets, outcome, calls,
                   seen, config, clocks, reads>>

\* The chattering device sends one more "\n" frame.
ArriveChatter ==
    /\ Listening
    /\ chatter
    /\ chat_ready
    /\ Len(pending) < MaxPending
    /\ Len(buffer) + Len(pending) < MaxBacklog
    /\ pending' = Append(pending, Frame("text", <<NL>>))
    /\ chat_ready' = FALSE
    /\ UNCHANGED <<buffer, ws_timeout, ws_state, future, empties, cuts, stack,
                   old_timeout, waited, locals, rets, outcome, calls,
                   seen, config, gap, h_early, h_quiet, elapsed, reads>>

\* The connection breaks: from now on recv raises a transport failure.
Break ==
    /\ ws_state = "open"
    /\ ws_state' = "broken"
    /\ UNCHANGED <<buffer, ws_timeout, pending, future, empties, cuts, stack,
                   old_timeout, waited, locals, rets, outcome, calls,
                   seen, config, clocks, reads>>

\* ws.recv() blocks: nothing has arrived and the timeout has not run out.
RecvWait ==
    /\ At("_pull_data", "recv") \/ At("flush", "recv")
    /\ ws_state = "open"
    /\ pending = <<>>
    /\ waited < ws_timeout
    /\ waited' = waited + 1
    /\ Tick
    /\ UNCHANGED <<buffer, ws_timeout, transport, stack, old_timeout, ce_left,
                   op_timeout, max_bytes, result, raw, rets, outcome, calls,
                   seen, config, reads>>

(* -------------------------------------------------------------- _pull_data *)

\* old_timeout = self.ws.gettimeout(); self.ws.settimeout(timeout)
EnterPull(t) ==
    /\ old_timeout' = ws_timeout
    /\ ws_timeout' = t
    /\ waited' = 0

\* LeavePull without self.ws.settimeout(old_timeout).
LeavePullNoRestore ==
    /\ ws_timeout' = ws_timeout
    /\ old_timeout' = 0
    /\ waited' = 0

\* finally: self.ws.settimeout(old_timeout), and the locals are gone.
LeavePull ==
    /\ ws_timeout' = old_timeout
    /\ old_timeout' = 0
    /\ waited' = 0

\* The top frame returns to its caller.
Return ==
    /\ stack' = Popped
    /\ outcome' = AfterReturn

\* An exception leaves the call: no caller of _pull_data or flush has a
\* handler, so every frame is unwound and the callers' locals are gone.
Unwind(exc) ==
    /\ stack' = <<>>
    /\ outcome' = exc
    /\ rl_rem' = 0
    /\ ce_left' = 0
    /\ op_timeout' = 0
    /\ max_bytes' = -1
    /\ result' = <<>>
    /\ raw' = <<>>
    /\ idle' = 0

CallPullData ==
    /\ Begin("_pull_data")
    /\ \E t \in 1..MaxTimeout :
          /\ EnterPull(t)
          /\ args' = Args(0, t, -1)
    /\ stack' = <<Call("_pull_data", "recv")>>
    /\ UNCHANGED <<buffer, transport, locals, reads>>

\* PullRecvData with the frame assigned to the buffer instead of appended.
PullRecvDataAssigned ==
    /\ At("_pull_data", "recv")
    /\ pending # <<>>
    /\ Head(pending).data # <<>>
    /\ buffer' = FrameBytes(Head(pending))
    /\ pending' = Tail(pending)
    /\ waited' = 0
    /\ UNCHANGED <<ws_timeout, ws_state, future, empties, cuts, stack,
                   old_timeout, locals, rets, outcome, calls, seen, config,
                   clocks, reads>>

\* data = self.ws.recv(); if data: self._buffer += data
\* PullRecvData with the frame put in front of the buffered bytes.
PullRecvDataPrepended ==
    /\ At("_pull_data", "recv")
    /\ pending # <<>>
    /\ Head(pending).data # <<>>
    /\ buffer' = FrameBytes(Head(pending)) \o buffer
    /\ pending' = Tail(pending)
    /\ waited' = 0
    /\ UNCHANGED <<ws_timeout, ws_state, future, empties, cuts, stack,
                   old_timeout, locals, rets, outcome, calls, seen, config,
                   clocks, reads>>

PullRecvData ==
    /\ At("_pull_data", "recv")
    /\ pending # <<>>
    /\ Head(pending).data # <<>>
    /\ buffer' = buffer \o FrameBytes(Head(pending))
    /\ pending' = Tail(pending)
    /\ waited' = 0
    /\ UNCHANGED <<ws_timeout, ws_state, future, empties, cuts, stack,
                   old_timeout, locals, rets, outcome, calls, seen, config,
                   clocks, reads>>

\* else: break, then finally: self.ws.settimeout(old_timeout)
PullRecvEmpty ==
    /\ At("_pull_data", "recv")
    /\ pending # <<>>
    /\ Head(pending).data = <<>>
    /\ pending' = Tail(pending)
    /\ LeavePull
    /\ Return
    /\ UNCHANGED <<buffer, ws_state, future, empties, cuts, locals, rets,
                   calls, seen, config, clocks, reads>>

\* PullRecvTimeout without the except clause: the timeout leaves the call.
PullRecvTimeoutRaised ==
    /\ At("_pull_data", "recv")
    /\ ws_state = "open"
    /\ pending = <<>>
    /\ waited >= ws_timeout
    /\ saw_timeout' = TRUE
    /\ LeavePull
    /\ Unwind("timeout")
    /\ UNCHANGED <<buffer, transport, rets, calls, saw_failure, config,
                   clocks, reads>>

\* except websocket.WebSocketTimeoutException: break, then the finally.
PullRecvTimeout ==
    /\ At("_pull_data", "recv")
    /\ ws_state = "open"
    /\ pending = <<>>
    /\ waited >= ws_timeout
    /\ saw_timeout' = TRUE
    /\ LeavePull
    /\ Return
    /\ UNCHANGED <<buffer, transport, locals, rets, calls, saw_failure,
                   config, clocks, reads>>

\* PullRecvFail without the finally clause: the timeout is not set back.
PullRecvFailNoFinally ==
    /\ At("_pull_data", "recv")
    /\ ws_state # "open"
    /\ saw_failure' = TRUE
    /\ old_timeout' = 0
    /\ waited' = 0
    /\ Unwind("failure")
    /\ UNCHANGED <<buffer, ws_timeout, transport, rets, calls, saw_timeout,
                   config, clocks, reads>>

\* PullRecvFail with every exception caught like the timeout: a break.
PullRecvFailSwallowed ==
    /\ At("_pull_data", "recv")
    /\ ws_state # "open"
    /\ saw_failure' = TRUE
    /\ LeavePull
    /\ Return
    /\ UNCHANGED <<buffer, transport, locals, rets, calls, saw_timeout,
                   config, clocks, reads>>

\* recv raises another failure: only the finally runs, the failure goes on.
PullRecvFail ==
    /\ At("_pull_data", "recv")
    /\ ws_state # "open"
    /\ saw_failure' = TRUE
    /\ LeavePull
    /\ Unwind("failure")
    /\ UNCHANGED <<buffer, transport, rets, calls, saw_timeout, config,
                   clocks, reads>>

(* ---------------------------------------------------------------- _readline *)

\* The history of the values _readline returns, kept in recording runs.
RecordRead(v) ==
    IF ~track THEN UNCHANGED reads
    ELSE IF Depth >= 2 /\ stack[Depth - 1].fn = "clear_echoes"
         THEN h_skipped' = Append(h_skipped, v) /\ UNCHANGED h_reads
         ELSE h_reads' = Append(h_reads, v) /\ UNCHANGED h_skipped

\* deadline = time.time() + timeout
CallReadline ==
    /\ Begin("_readline")
    /\ \E t \in 0..MaxWait :
          /\ rl_rem' = t
          /\ args' = Args(0, t, -1)
    /\ stack' = <<Call("_readline", "loop")>>
    /\ UNCHANGED <<buffer, ws_timeout, transport, old_timeout, waited, ce_left,
                   op_timeout, max_bytes, result, raw, idle, reads>>

\* ReadlineLine returning the whole buffer once it holds a newline.
ReadlineLineWholeBuffer ==
    /\ At("_readline", "loop")
    /\ Find(buffer) # 0
    /\ ret_bytes' = buffer
    /\ buffer' = <<>>
    /\ RecordRead(buffer)
    /\ rl_rem' = 0
    /\ Return
    /\ UNCHANGED <<ws_timeout, transport, old_timeout, waited, ce_left,
                   op_timeout, max_bytes, result, raw, idle, ret_len,
                   ret_lines, calls, seen, config, clocks>>

\* ReadlineLine without self._buffer = self._buffer[idx + 1:].
ReadlineLineNotRemoved ==
    /\ At("_readline", "loop")
    /\ Find(buffer) # 0
    /\ ret_bytes' = Take(buffer, Find(buffer))
    /\ RecordRead(Take(buffer, Find(buffer)))
    /\ rl_rem' = 0
    /\ Return
    /\ UNCHANGED <<buffer, ws_timeout, transport, old_timeout, waited, ce_left,
                   op_timeout, max_bytes, result, raw, idle, ret_len,
                   ret_lines, calls, seen, config, clocks>>

\* idx != -1: return the bytes up to and including the first newline.
ReadlineLine ==
    /\ At("_readline", "loop")
    /\ Find(buffer) # 0
    /\ ret_bytes' = Take(buffer, Find(buffer))
    /\ buffer' = Drop(buffer, Find(buffer))
    /\ RecordRead(Take(buffer, Find(buffer)))
    /\ rl_rem' = 0
    /\ Return
    /\ UNCHANGED <<ws_timeout, transport, old_timeout, waited, ce_left,
                   op_timeout, max_bytes, result, raw, idle, ret_len,
                   ret_lines, calls, seen, config, clocks>>

\* ReadlineDeadline without self._buffer.clear().
ReadlineDeadlineKeeps ==
    /\ At("_readline", "loop")
    /\ Find(buffer) = 0
    /\ rl_rem <= 0
    /\ ret_bytes' = buffer
    /\ RecordRead(buffer)
    /\ Return
    /\ UNCHANGED <<buffer, ws_timeout, transport, old_timeout, waited, locals,
                   ret_len, ret_lines, calls, seen, config, clocks>>

\* remaining <= 0: return whatever is buffered and clear it.
ReadlineDeadline ==
    /\ At("_readline", "loop")
    /\ Find(buffer) = 0
    /\ rl_rem <= 0
    /\ ret_bytes' = buffer
    /\ buffer' = <<>>
    /\ RecordRead(buffer)
    /\ Return
    /\ UNCHANGED <<ws_timeout, transport, old_timeout, waited, locals, ret_len,
                   ret_lines, calls, seen, config, clocks>>

\* self._pull_data(timeout=min(remaining, 0.1))
ReadlinePull ==
    /\ At("_readline", "loop")
    /\ Find(buffer) = 0
    /\ rl_rem > 0
    /\ EnterPull(Min(rl_rem, ReadlineQuantum))
    /\ stack' = Append(stack, Call("_pull_data", "recv"))
    /\ UNCHANGED <<buffer, transport, locals, rets, outcome, calls, seen,
                   config, clocks, reads>>

(* --------------------------------------------------------------- _in_waiting *)

\* The frames a use of the _in_waiting property pushes: the property and the
\* self._pull_data(timeout=0.05) it starts with.
InWaitingFrames == <<Call("_in_waiting", "pulled"), Call("_pull_data", "recv")>>

CallInWaiting ==
    /\ Begin("_in_waiting")
    /\ EnterPull(InWaitingQuantum)
    /\ args' = NoArgs
    /\ stack' = InWaitingFrames
    /\ UNCHANGED <<buffer, transport, locals, reads>>

\* return len(self._buffer)
InWaitingReturn ==
    /\ At("_in_waiting", "pulled")
    /\ ret_len' = Len(buffer)
    /\ Return
    /\ UNCHANGED <<buffer, ws_timeout, transport, old_timeout, waited, locals,
                   ret_bytes, ret_lines, calls, seen, config, clocks, reads>>

(* --------------------------------------------------------------------- flush *)

\* self._buffer.clear(); old_timeout = gettimeout(); settimeout(0.1)
CallFlush ==
    /\ Begin("flush")
    /\ buffer' = <<>>
    /\ EnterPull(FlushQuantum)
    /\ args' = NoArgs
    /\ stack' = <<Call("flush", "recv")>>
    /\ UNCHANGED <<transport, locals, reads>>

\* data = self.ws.recv() with data: the frame is discarded.
FlushRecvData ==
    /\ At("flush", "recv")
    /\ pending # <<>>
    /\ Head(pending).data # <<>>
    /\ pending' = Tail(pending)
    /\ waited' = 0
    /\ UNCHANGED <<buffer, ws_timeout, ws_state, future, empties, cuts, stack,
                   old_timeout, locals, rets, outcome, calls, seen, config,
                   clocks, reads>>

\* if not data: break, then finally: self.ws.settimeout(old_timeout)
FlushRecvEmpty ==
    /\ At("flush", "recv")
    /\ pending # <<>>
    /\ Head(pending).data = <<>>
    /\ pending' = Tail(pending)
    /\ LeavePull
    /\ Return
    /\ UNCHANGED <<buffer, ws_state, future, empties, cuts, locals, rets,
                   calls, seen, config, clocks, reads>>

\* except websocket.WebSocketTimeoutException: break, then the finally.
FlushRecvTimeout ==
    /\ At("flush", "recv")
    /\ ws_state = "open"
    /\ pending = <<>>
    /\ waited >= ws_timeout
    /\ saw_timeout' = TRUE
    /\ LeavePull
    /\ Return
    /\ UNCHANGED <<buffer, transport, locals, rets, calls, saw_failure,
                   config, clocks, reads>>

\* recv raises another failure: only the finally runs, the failure goes on.
FlushRecvFail ==
    /\ At("flush", "recv")
    /\ ws_state # "open"
    /\ saw_failure' = TRUE
    /\ LeavePull
    /\ Unwind("failure")
    /\ UNCHANGED <<buffer, transport, rets, calls, saw_timeout, config,
                   clocks, reads>>

(* -------------------------------------------------------------- clear_echoes *)

CallClearEchoes ==
    /\ Begin("clear_echoes")
    /\ \E n \in 0..MaxSkip :
          /\ ce_left' = n
          /\ args' = Args(n, 0, -1)
    /\ stack' = <<Call("clear_echoes", "loop")>>
    /\ UNCHANGED <<buffer, ws_timeout, transport, old_timeout, waited, rl_rem,
                   op_timeout, max_bytes, result, raw, idle, reads>>

\* ClearEchoesNext without the read: the loop counts a line and reads none.
ClearEchoesNextNoRead ==
    /\ At("clear_echoes", "loop")
    /\ ce_left > 0
    /\ ce_left' = ce_left - 1
    /\ UNCHANGED <<buffer, ws_timeout, transport, stack, old_timeout, waited,
                   rl_rem, op_timeout, max_bytes, result, raw, idle, rets,
                   outcome, calls, seen, config, clocks, reads>>

\* for _ in range(lines): self._readline(timeout=self.timeout)
ClearEchoesNext ==
    /\ At("clear_echoes", "loop")
    /\ ce_left > 0
    /\ ce_left' = ce_left - 1
    /\ rl_rem' = self_timeout
    /\ stack' = Append(stack, Call("_readline", "loop"))
    /\ UNCHANGED <<buffer, ws_timeout, transport, old_timeout, waited,
                   op_timeout, max_bytes, result, raw, idle, rets, outcome,
                   calls, seen, config, clocks, reads>>

ClearEchoesDone ==
    /\ At("clear_echoes", "loop")
    /\ ce_left = 0
    /\ Return
    /\ UNCHANGED <<buffer, ws_timeout, transport, old_timeout, waited, locals,
                   rets, calls, seen, config, clocks, reads>>

(* --------------------------------------------------------------------- receive *)

\* TrimPrompt without the trimming: return result.
TrimPromptNever(res) == res

\* return result[0:-1] if result and result[-1].endswith(">") else result
TrimPrompt(res) ==
    IF res # <<>> /\ EndsWithPrompt(res[Len(res)])
    THEN SubSeq(res, 1, Len(res) - 1)
    ELSE res

\* The arguments the caller passes to receive: those of the scenario, or any.
ReceiveSkips ==
    CASE scen = "AT" -> {1}
      [] scen = "echo" -> {2}
      [] OTHER -> 0..MaxSkip
ReceiveTimeouts == IF scen = "AT" THEN {DefaultReceiveTimeout} ELSE 0..MaxTimeout

\* self.clear_echoes(skip)
CallReceive ==
    /\ Begin("receive")
    /\ \E n \in ReceiveSkips, t \in ReceiveTimeouts :
          /\ ce_left' = n
          /\ op_timeout' = t
          /\ args' = Args(n, t, -1)
    /\ stack' = <<Call("receive", "start"), Call("clear_echoes", "loop")>>
    /\ UNCHANGED <<buffer, ws_timeout, transport, old_timeout, waited, rl_rem,
                   max_bytes, result, raw, idle, reads>>

\* result = []; last_data_time = time.time(); the first self._in_waiting
ReceiveInit ==
    /\ At("receive", "start")
    /\ result' = <<>>
    /\ idle' = 0
    /\ EnterPull(InWaitingQuantum)
    /\ stack' = WithPc("check") \o InWaitingFrames
    /\ UNCHANGED <<buffer, transport, rl_rem, ce_left, op_timeout, max_bytes,
                   raw, rets, outcome, calls, seen, config, clocks, reads>>

\* if self._in_waiting: self._readline(timeout=timeout)
ReceiveReadline ==
    /\ At("receive", "check")
    /\ ret_len # 0
    /\ rl_rem' = op_timeout
    /\ stack' = Append(WithPc("line"), Call("_readline", "loop"))
    /\ UNCHANGED <<buffer, ws_timeout, transport, old_timeout, waited, ce_left,
                   op_timeout, max_bytes, result, raw, idle, rets, outcome,
                   calls, seen, config, clocks, reads>>

\* line = ....decode("utf-8", errors="ignore").strip(); if line: append;
\* last_data_time = time.time(); then the next self._in_waiting
ReceiveLine ==
    /\ At("receive", "line")
    /\ result' = IF DecodeLine(ret_bytes) # <<>>
                 THEN Append(result, DecodeLine(ret_bytes))
                 ELSE result
    /\ idle' = 0
    /\ EnterPull(InWaitingQuantum)
    /\ stack' = WithPc("check") \o InWaitingFrames
    /\ UNCHANGED <<buffer, transport, rl_rem, ce_left, op_timeout, max_bytes,
                   raw, rets, outcome, calls, seen, config, clocks, reads>>

\* elif time.time() - last_data_time > timeout: break, and the return
ReceiveBreak ==
    /\ At("receive", "check")
    /\ ret_len = 0
    /\ idle > op_timeout
    /\ ret_lines' = TrimPrompt(result)
    /\ result' = <<>>
    /\ idle' = 0
    /\ op_timeout' = 0
    /\ ret_bytes' = <<>>
    /\ Return
    /\ UNCHANGED <<buffer, ws_timeout, transport, old_timeout, waited, rl_rem,
                   ce_left, max_bytes, raw, ret_len, calls, seen,
                   config, clocks, reads>>

\* neither branch: the loop evaluates self._in_waiting again
ReceivePoll ==
    /\ At("receive", "check")
    /\ ret_len = 0
    /\ ~(idle > op_timeout)
    /\ EnterPull(InWaitingQuantum)
    /\ stack' = stack \o InWaitingFrames
    /\ UNCHANGED <<buffer, transport, locals, rets, outcome, calls, seen,
                   config, clocks, reads>>

(* ----------------------------------------------------------------- receive_all *)

\* lines = []; last_data_time = time.time(); the first self._in_waiting
CallReceiveAll ==
    /\ Begin("receive_all")
    /\ \E t \in 0..MaxTimeout :
          /\ op_timeout' = t
          /\ args' = Args(0, t, -1)
    /\ result' = <<>>
    /\ idle' = 0
    /\ EnterPull(InWaitingQuantum)
    /\ stack' = <<Call("receive_all", "check")>> \o InWaitingFrames
    /\ UNCHANGED <<buffer, transport, rl_rem, ce_left, max_bytes, raw, 
                   reads>>

\* if self._in_waiting > 0: self._readline(timeout=silence_timeout)
ReceiveAllReadline ==
    /\ At("receive_all", "check")
    /\ ret_len > 0
    /\ rl_rem' = op_timeout
    /\ stack' = Append(WithPc("line"), Call("_readline", "loop"))
    /\ UNCHANGED <<buffer, ws_timeout, transport, old_timeout, waited, ce_left,
                   op_timeout, max_bytes, result, raw, idle, rets, outcome,
                   calls, seen, config, clocks, reads>>

\* KeepLine without the test: every non-empty line is appended.
KeepLineAlways(line) == TRUE

\* if not line.endswith(">"): lines.append(line)
KeepLine(line) == ~EndsWithPrompt(line)

\* if line: (append unless a prompt); last_data_time = time.time();
\* then the loop evaluates self._in_waiting again
ReceiveAllLine ==
    /\ At("receive_all", "line")
    /\ LET line == DecodeLine(ret_bytes)
       IN  /\ result' = IF line # <<>> /\ KeepLine(line)
                        THEN Append(result, line)
                        ELSE result
           /\ idle' = IF line # <<>> THEN 0 ELSE idle
    /\ EnterPull(InWaitingQuantum)
    /\ stack' = WithPc("check") \o InWaitingFrames
    /\ UNCHANGED <<buffer, transport, rl_rem, ce_left, op_timeout, max_bytes,
                   raw, rets, outcome, calls, seen, config, clocks, reads>>

\* else: if time.time() - last_data_time > silence_timeout: break
ReceiveAllBreak ==
    /\ At("receive_all", "check")
    /\ ~(ret_len > 0)
    /\ idle > op_timeout
    /\ ret_lines' = result
    /\ result' = <<>>
    /\ idle' = 0
    /\ op_timeout' = 0
    /\ ret_bytes' = <<>>
    /\ Return
    /\ UNCHANGED <<buffer, ws_timeout, transport, old_timeout, waited, rl_rem,
                   ce_left, max_bytes, raw, ret_len, calls, seen,
                   config, clocks, reads>>

\* time.sleep(0.05), one tick, then the loop evaluates self._in_waiting
\* again
ReceiveAllSleep ==
    /\ At("receive_all", "check")
    /\ ~(ret_len > 0)
    /\ ~(idle > op_timeout)
    /\ Tick
    /\ EnterPull(InWaitingQuantum)
    /\ stack' = stack \o InWaitingFrames
    /\ UNCHANGED <<buffer, transport, ce_left, op_timeout, max_bytes, result,
                   raw, rets, outcome, calls, seen, config, reads>>

(* ----------------------------------------------------------------- receive_raw *)

\* The scenario of receive_raw: 15 bytes in one frame, silence_timeout 0.3 s
\* (6 ticks), max_bytes 10.
RawScenario == [frame |-> 15, timeout |-> 6, max_bytes |-> 10]

\* The arguments the caller passes to receive_raw; silence_timeout is
\* positive (settimeout(0) would make the socket non-blocking).
RawTimeouts == IF scen = "raw15" THEN {RawScenario.timeout} ELSE 1..MaxWait
RawLimits == IF scen = "raw15" THEN {RawScenario.max_bytes} ELSE -1..MaxStream

\* buf = bytearray(); last_data_time = time.time(); the first _pull_data
CallReceiveRaw ==
    /\ Begin("receive_raw")
    /\ \E t \in RawTimeouts, n \in RawLimits :
          /\ op_timeout' = t
          /\ max_bytes' = n
          /\ EnterPull(Min(RawQuantum, t))
          /\ args' = Args(0, t, n)
    /\ raw' = <<>>
    /\ idle' = 0
    /\ stack' = <<Call("receive_raw", "pulled"), Call("_pull_data", "recv")>>
    /\ UNCHANGED <<buffer, transport, rl_rem, ce_left, result, reads>>

\* max_bytes is not None and len(buf) >= max_bytes
RawFull(buf) == max_bytes # -1 /\ Len(buf) >= max_bytes

\* if self._buffer: the chunk moves to buf, the limit is not reached, and
\* the loop calls _pull_data again
ReceiveRawChunk ==
    /\ At("receive_raw", "pulled")
    /\ buffer # <<>>
    /\ ~RawFull(raw \o buffer)
    /\ raw' = raw \o buffer
    /\ buffer' = <<>>
    /\ idle' = 0
    /\ EnterPull(Min(RawQuantum, op_timeout))
    /\ stack' = Append(stack, Call("_pull_data", "recv"))
    /\ UNCHANGED <<transport, rl_rem, ce_left, op_timeout, max_bytes, result,
                   rets, outcome, calls, seen, config, clocks, reads>>

\* ReceiveRawMax without the slice: return bytes(buf).
ReceiveRawMaxWhole ==
    /\ At("receive_raw", "pulled")
    /\ buffer # <<>>
    /\ RawFull(raw \o buffer)
    /\ ret_bytes' = raw \o buffer
    /\ buffer' = <<>>
    /\ raw' = <<>>
    /\ idle' = 0
    /\ op_timeout' = 0
    /\ max_bytes' = -1
    /\ Return
    /\ UNCHANGED <<ws_timeout, transport, old_timeout, waited, rl_rem, ce_left,
                   result, ret_len, ret_lines, calls, seen, config, clocks,
                   reads>>

\* ReceiveRawMax putting the bytes beyond max_bytes back into the buffer.
ReceiveRawMaxKeepsRest ==
    /\ At("receive_raw", "pulled")
    /\ buffer # <<>>
    /\ RawFull(raw \o buffer)
    /\ ret_bytes' = Take(raw \o buffer, max_bytes)
    /\ buffer' = Drop(raw \o buffer, max_bytes)
    /\ raw' = <<>>
    /\ idle' = 0
    /\ op_timeout' = 0
    /\ max_bytes' = -1
    /\ Return
    /\ UNCHANGED <<ws_timeout, transport, old_timeout, waited, rl_rem, ce_left,
                   result, ret_len, ret_lines, calls, seen, config, clocks,
                   reads>>

\* if self._buffer: ... return bytes(buf[:max_bytes])
ReceiveRawMax ==
    /\ At("receive_raw", "pulled")
    /\ buffer # <<>>
    /\ RawFull(raw \o buffer)
    /\ ret_bytes' = Take(raw \o buffer, max_bytes)
    /\ buffer' = <<>>
    /\ raw' = <<>>
    /\ idle' = 0
    /\ op_timeout' = 0
    /\ max_bytes' = -1
    /\ Return
    /\ UNCHANGED <<ws_timeout, transport, old_timeout, waited, rl_rem, ce_left,
                   result, ret_len, ret_lines, calls, seen, config, clocks,
                   reads>>

\* else: if time.time() - last_data_time > silence_timeout: break
ReceiveRawBreak ==
    /\ At("receive_raw", "pulled")
    /\ buffer = <<>>
    /\ idle > op_timeout
    /\ ret_bytes' = raw
    /\ raw' = <<>>
    /\ idle' = 0
    /\ op_timeout' = 0
    /\ max_bytes' = -1
    /\ Return
    /\ UNCHANGED <<buffer, ws_timeout, transport, old_timeout, waited, rl_rem,
                   ce_left, result, ret_len, ret_lines, calls, seen, config,
                   clocks, reads>>

\* neither: the loop calls _pull_data again
ReceiveRawPoll ==
    /\ At("receive_raw", "pulled")
    /\ buffer = <<>>
    /\ ~(idle > op_timeout)
    /\ EnterPull(Min(RawQuantum, op_timeout))
    /\ stack' = Append(stack, Call("_pull_data", "recv"))
    /\ UNCHANGED <<buffer, transport, locals, rets, outcome, calls, seen,
                   config, clocks, reads>>

(* ---------------------------------------------------------------------- send *)

\* send(data): nothing of the adapter depends on the data.
CallSend ==
    /\ Begin("send")
    /\ args' = NoArgs
    /\ stack' = <<Call("send", "send")>>
    /\ UNCHANGED <<buffer, ws_timeout, transport, old_timeout, waited, locals,
                   reads>>

\* self.ws.send(data) on a connected transport: the adapter's state is as
\* it was.
SendDone ==
    /\ At("send", "send")
    /\ ws_state = "open"
    /\ Return
    /\ UNCHANGED <<buffer, ws_timeout, transport, old_timeout, waited, locals,
                   rets, calls, seen, config, clocks, reads>>

\* self.ws.send(data) on a broken or closed transport raises; send has no
\* handler.
SendFail ==
    /\ At("send", "send")
    /\ ws_state # "open"
    /\ Unwind("failure")
    /\ UNCHANGED <<buffer, ws_timeout, transport, old_timeout, waited, rets,
                   calls, seen, config, clocks, reads>>

(* ---------------------------------------------------------------------- stop *)

CallStop ==
    /\ Begin("stop")
    /\ args' = NoArgs
    /\ stack' = <<Call("stop", "close")>>
    /\ UNCHANGED <<buffer, ws_timeout, transport, old_timeout, waited, locals,
                   reads>>

\* StopCloseRaises without the handler: the failure of ws.close() leaves
\* stop.
StopCloseRaisesUncaught ==
    /\ At("stop", "close")
    /\ ws_state = "broken"
    /\ ws_state' = "closed"
    /\ Unwind("failure")
    /\ UNCHANGED <<buffer, ws_timeout, pending, future, empties, cuts,
                   old_timeout, waited, rets, calls, seen, config, clocks,
                   reads>>

\* try: self.ws.close(), which returns: the transport is closed (it stays
\* closed if it was), and what had arrived and was not received is gone
\* with the socket.
StopClose ==
    /\ At("stop", "close")
    /\ ws_state' = "closed"
    /\ pending' = <<>>
    /\ Return
    /\ UNCHANGED <<buffer, ws_timeout, future, empties, cuts, old_timeout,
                   waited, locals, rets, calls, seen, config, clocks, reads>>

\* try: self.ws.close(), which raises on the broken transport;
\* except Exception: pass
StopCloseRaises ==
    /\ At("stop", "close")
    /\ ws_state = "broken"
    /\ ws_state' = "closed"
    /\ pending' = <<>>
    /\ Return
    /\ UNCHANGED <<buffer, ws_timeout, future, empties, cuts, old_timeout,
                   waited, locals, rets, calls, seen, config, clocks, reads>>

(* ----------------------------------------------------------- a second caller *)

\* A second thread of control calls _pull_data or flush on the same handle:
\* the same statements, run on its own locals (old_timeout) and on the
\* handle's buffer and transport.  One step is what the thread does from
\* one recv to the next; the threads' steps interleave in any order.

\* No second caller has run.
NoCaller ==
    [pc |-> "idle", old_timeout |-> 0, waited |-> 0, found |-> "none",
     overlap |-> FALSE]

\* Everything a step of the second caller leaves alone, but for the buffer,
\* the transport timeout, the frames waiting and caller2 itself.
Others2 ==
    <<ws_state, future, empties, cuts, self_timeout, chatter, max_gap, track,
      scen, wire, stream0, stack, old_timeout, waited, locals, rets, outcome,
      calls, seen, clocks, reads>>

Running2 == caller2.pc \in {"_pull_data", "flush"}

\* What the first caller is doing: nothing yet, a call, or nothing any more.
FirstCaller ==
    IF stack # <<>> THEN "running" ELSE IF top_op = "none" THEN "none" ELSE "over"

\* old_timeout = self.ws.gettimeout(); self.ws.settimeout(timeout), in
\* _pull_data(t) or, after self._buffer.clear(), in flush.
Call2 ==
    /\ caller2.pc = "idle"
    /\ \E fn \in {"_pull_data", "flush"} :
         \E t \in (IF fn = "flush" THEN {FlushQuantum} ELSE 1..MaxTimeout) :
            /\ caller2' = [pc |-> fn, old_timeout |-> ws_timeout, waited |-> 0,
                           found |-> FirstCaller, overlap |-> FALSE]
            /\ ws_timeout' = t
            /\ buffer' = IF fn = "flush" THEN <<>> ELSE buffer
    /\ UNCHANGED <<pending, Others2>>

\* finally: self.ws.settimeout(old_timeout).  The calls have overlapped if
\* the first caller was in a call when this one began, or has begun one
\* since.
Leave2 ==
    /\ ws_timeout' = caller2.old_timeout
    /\ caller2' = [pc |-> "done", old_timeout |-> 0, waited |-> 0,
                   found |-> caller2.found,
                   overlap |-> \/ caller2.found = "running"
                               \/ caller2.found = "none" /\ FirstCaller # "none"]

\* ws.recv() blocks in the second caller.
Recv2Wait ==
    /\ Running2
    /\ ws_state = "open"
    /\ pending = <<>>
    /\ caller2.waited < ws_timeout
    /\ caller2' = [caller2 EXCEPT !.waited = @ + 1]
    /\ UNCHANGED <<buffer, ws_timeout, pending, Others2>>

\* data = self.ws.recv() with data: appended to the buffer by _pull_data,
\* discarded by flush.
Recv2Data ==
    /\ Running2
    /\ pending # <<>>
    /\ Head(pending).data # <<>>
    /\ buffer' = IF caller2.pc = "flush" THEN buffer
                  ELSE buffer \o FrameBytes(Head(pending))
    /\ pending' = Tail(pending)
    /\ caller2' = [caller2 EXCEPT !.waited = 0]
    /\ UNCHANGED <<ws_timeout, Others2>>

\* An empty frame: break, then the finally.
Recv2Empty ==
    /\ Running2
    /\ pending # <<>>
    /\ Head(pending).data = <<>>
    /\ pending' = Tail(pending)
    /\ Leave2
    /\ UNCHANGED <<buffer, Others2>>

\* except websocket.WebSocketTimeoutException: break, then the finally.
Recv2Timeout ==
    /\ Running2
    /\ ws_state = "open"
    /\ pending = <<>>
    /\ caller2.waited >= ws_timeout
    /\ Leave2
    /\ UNCHANGED <<buffer, pending, Others2>>

Caller2Steps == Call2 \/ Recv2Wait \/ Recv2Data \/ Recv2Empty \/ Recv2Timeout

(* ------------------------------------------------------------ specifications *)


\* The state after __init__: an empty buffer, the transport connected with
\* its timeout set to self.timeout, nothing called yet.
InitAdapter ==
    /\ buffer = <<>>
    /\ ws_state = "open"
    /\ ws_timeout = self_timeout
    /\ pending = <<>>
    /\ stack = <<>>
    /\ old_timeout = 0
    /\ waited = 0
    /\ rl_rem = 0
    /\ ce_left = 0
    /\ op_timeout = 0
    /\ max_bytes = -1
    /\ result = <<>>
    /\ raw = <<>>
    /\ idle = 0
    /\ ret_bytes = <<>>
    /\ ret_len = 0
    /\ ret_lines = <<>>
    /\ outcome = "none"
    /\ top_op = "none"
    /\ prev_op = "none"
    /\ args = NoArgs
    /\ t_before = self_timeout
    /\ saw_timeout = FALSE
    /\ saw_failure = FALSE
    /\ chat_ready = FALSE
    /\ gap = 0
    /\ h_reads = <<>>
    /\ h_skipped = <<>>
    /\ h_early = <<>>
    /\ h_quiet = FALSE
    /\ elapsed = 0
    /\ stream0 = future
    /\ s_before = Snapshot
    /\ caller2 = NoCaller

\* Streams with a two-byte character (e-acute, 233): a text frame holding
\* it is encoded by _pull_data, a binary frame may end inside it.
AccentStreams ==
    {Encode(<<233, NL>>), Encode(<<65, 233>>), Encode(<<GT, NL, 233>>)}

\* A device that sends any one of the given streams, split into frames in
\* any way and at any time.
AnyDevice(streams) ==
    /\ future \in streams
    /\ empties \in 0..MaxEmpty
    /\ cuts = <<>>
    /\ chatter = FALSE
    /\ max_gap = -1
    /\ scen = "none"
    /\ wire = "any"

\* The same device, sending as text every frame that is valid text.
TextDevice(streams) ==
    /\ future \in streams
    /\ empties \in 0..MaxEmpty
    /\ cuts = <<>>
    /\ chatter = FALSE
    /\ max_gap = -1
    /\ wire = "text"

PullSteps == RecvWait \/ PullRecvData \/ PullRecvEmpty \/ PullRecvTimeout

ReadlineSteps == ReadlineLine \/ ReadlineDeadline \/ ReadlinePull

FlushSteps == FlushRecvData \/ FlushRecvEmpty \/ FlushRecvTimeout

ClearEchoesSteps == ClearEchoesNext \/ ClearEchoesDone

ReceiveSteps ==
    \/ ReceiveInit
    \/ ReceiveReadline
    \/ ReceiveLine
    \/ ReceiveBreak
    \/ ReceivePoll

ReceiveAllSteps ==
    \/ ReceiveAllReadline
    \/ ReceiveAllLine
    \/ ReceiveAllBreak
    \/ ReceiveAllSleep

ReceiveRawSteps ==
    \/ ReceiveRawChunk
    \/ ReceiveRawMax
    \/ ReceiveRawBreak
    \/ ReceiveRawPoll

(* The whole adapter: every operation, called in any order by one caller,  *)
(* over a transport that may break at any time.                            *)

Init ==
    /\ AnyDevice(Streams({NL, 65}, MaxShort))
    /\ self_timeout = MaxTimeout
    /\ track = FALSE
    /\ InitAdapter

Next ==
    \/ Arrive
    \/ ArriveEmpty
    \/ Break
    \/ CallPullData
    \/ CallReadline
    \/ CallInWaiting
    \/ CallFlush
    \/ CallClearEchoes
    \/ CallReceive
    \/ CallReceiveAll
    \/ CallReceiveRaw
    \/ PullSteps
    \/ PullRecvFail
    \/ ReadlineSteps
    \/ InWaitingReturn
    \/ FlushSteps
    \/ FlushRecvFail
    \/ ClearEchoesSteps
    \/ ReceiveSteps
    \/ ReceiveAllSteps
    \/ ReceiveRawSteps

Spec == Init /\ [][Next]_vars

(* _readline alone: the caller reads line after line while the device     *)
(* sends its stream, split into frames in any way and at any time.         *)

InitReadline ==
    /\ AnyDevice(Streams({NL, 65}, MaxStream) \cup AccentStreams)
    /\ self_timeout = MaxTimeout
    /\ track = TRUE
    /\ InitAdapter

NextReadline ==
    \/ Arrive
    \/ ArriveEmpty
    \/ (Len(h_reads) < MaxCalls /\ CallReadline)
    \/ PullSteps
    \/ ReadlineSteps

SpecReadline == InitReadline /\ [][NextReadline]_vars

(* receive alone, called once: after any stream, or in the scenario of    *)
(* the frames "AT\n", "OK", "\n>" arriving with small delays.              *)

\* Two echoed lines ("A\n", then "A\n" or "\n") followed by payload.
EchoStreams ==
    {a \o b \o c : a \in {<<65, NL>>},
                   b \in {<<NL>>, <<65, NL>>},
                   c \in {<<>>, <<80, NL>>, <<80, NL, GT>>}}

\* "AT\nOK\n>"
ScenarioAT == <<65, 84, NL, 79, 75, NL, GT>>

InitReceive ==
    /\ \/ /\ TextDevice(Streams({NL, GT, 65}, MaxShort) \cup AccentStreams)
          /\ scen = "none"
          /\ self_timeout = MaxTimeout
       \/ /\ TextDevice(EchoStreams)
          /\ scen = "echo"
          /\ self_timeout \in 1..MaxTimeout
       \/ /\ future = ScenarioAT
          /\ cuts = <<3, 2, 2>>
          /\ max_gap \in 0..SmallDelay
          /\ scen = "AT"
          /\ wire = "text"
          /\ empties = 0
          /\ chatter = FALSE
          /\ self_timeout = DefaultTimeout
    /\ track = TRUE
    /\ InitAdapter

NextReceive ==
    \/ Arrive
    \/ ArriveEmpty
    \/ (top_op = "none" /\ CallReceive)
    \/ PullSteps
    \/ ReadlineSteps
    \/ InWaitingReturn
    \/ ClearEchoesSteps
    \/ ReceiveSteps

SpecReceive == InitReceive /\ [][NextReceive]_vars

\* receive_raw on a fresh adapter: any short stream in any frames at any
\* time, or the scenario (15 bytes in one frame, sent without delay, then
\* silence; silence_timeout 0.3 s, max_bytes 10).
RawStream == [i \in 1..RawScenario.frame |-> 64 + i]

InitRaw ==
    /\ \/ /\ AnyDevice(Streams({65, 66}, MaxStream) \cup AccentStreams)
       \/ /\ future = RawStream
          /\ cuts = <<RawScenario.frame>>
          /\ max_gap \in 0..SmallDelay
          /\ scen = "raw15"
          /\ wire = "text"
          /\ empties = 0
          /\ chatter = FALSE
    /\ self_timeout = MaxTimeout
    /\ track = TRUE
    /\ InitAdapter

NextRaw ==
    \/ Arrive
    \/ ArriveEmpty
    \/ (top_op = "none" /\ CallReceiveRaw)
    \/ PullSteps
    \/ ReceiveRawSteps

SpecRaw == InitRaw /\ [][NextRaw]_vars

\* flush, then _in_waiting: the device sends any short stream in any
\* frames, empty ones too, before flush is called (a _pull_data may have
\* filled the buffer by then) and nothing from then on.
BeforeFlush == top_op \in {"none", "_pull_data"}

InitFlush ==
    /\ AnyDevice(Streams({NL, 65}, MaxShort))
    /\ self_timeout = MaxTimeout
    /\ track = TRUE
    /\ InitAdapter

NextFlush ==
    \/ (BeforeFlush /\ Arrive)
    \/ (BeforeFlush /\ ArriveEmpty)
    \/ (top_op = "none" /\ CallPullData)
    \/ (BeforeFlush /\ CallFlush)
    \/ (top_op = "flush" /\ CallInWaiting)
    \/ PullSteps
    \/ FlushSteps
    \/ InWaitingReturn

SpecFlush == InitFlush /\ [][NextFlush]_vars

\* receive_all on a fresh adapter, over a device that sends a short stream
\* with prompt lines in it and then is silent, or (chatter) goes on sending
\* "\n" frames, at most one per tick (these endless runs keep no history).
\* The interpreter keeps running the call: a step of the adapter that can
\* be taken is taken.
PromptStreams ==
    {<<GT, NL, 65, NL>>, <<65, NL, GT, NL, 65, NL>>, <<65, NL, GT, NL>>,
     <<65, NL, GT>>, <<SP, GT, SP, NL>>}

InitRecvAll ==
    /\ \/ /\ future \in Streams({NL, GT, 65}, MaxShort) \cup PromptStreams
          /\ empties \in 0..MaxEmpty
          /\ chatter = FALSE
       \/ /\ future \in {<<>>, <<65, NL>>}
          /\ empties = 0
          /\ chatter = TRUE
    /\ cuts = <<>>
    /\ max_gap = -1
    /\ scen = "none"
    /\ wire = "text"
    /\ self_timeout = MaxTimeout
    /\ track = ~chatter
    /\ InitAdapter

AdapterRecvAll ==
    \/ PullSteps
    \/ ReadlineSteps
    \/ InWaitingReturn
    \/ ReceiveAllSteps

NextRecvAll ==
    \/ Arrive
    \/ ArriveEmpty
    \/ ArriveChatter
    \/ (top_op = "none" /\ CallReceiveAll)
    \/ AdapterRecvAll

SpecRecvAll ==
    InitRecvAll /\ [][NextRecvAll]_vars /\ WF_vars(AdapterRecvAll)

\* stop and what follows it: the device sends a short stream, the caller
\* may call one operation, the connection may break; then the caller calls
\* stop, any number of times, and one more operation after that.
ReadWriteOps ==
    {"send", "_readline", "_in_waiting", "flush", "receive", "receive_all",
     "receive_raw", "clear_echoes"}

InitClose ==
    /\ AnyDevice(Streams({NL, 65}, MaxShort))
    /\ self_timeout = MaxTimeout
    /\ track = TRUE
    /\ InitAdapter

AfterStop ==
    \/ CallSend
    \/ CallReadline
    \/ CallInWaiting
    \/ CallFlush
    \/ CallClearEchoes
    \/ CallReceive
    \/ CallReceiveAll
    \/ CallReceiveRaw

NextClose ==
    \/ Arrive
    \/ ArriveEmpty
    \/ Break
    \/ (top_op = "none" /\ CallPullData)
    \/ (top_op = "none" /\ AfterStop)
    \/ ((top_op = "stop" \/ prev_op # "stop") /\ CallStop)
    \/ (top_op = "stop" /\ AfterStop)
    \/ StopClose
    \/ StopCloseRaises
    \/ SendDone
    \/ SendFail
    \/ PullSteps
    \/ PullRecvFail
    \/ ReadlineSteps
    \/ InWaitingReturn
    \/ FlushSteps
    \/ FlushRecvFail
    \/ ClearEchoesSteps
    \/ ReceiveSteps
    \/ ReceiveAllSteps
    \/ ReceiveRawSteps

SpecClose == InitClose /\ [][NextClose]_vars

\* _pull_data alone, called once, while the device sends its stream in any
\* frames at any time.
InitPull ==
    /\ AnyDevice(Streams({NL, 65}, MaxStream) \cup AccentStreams)
    /\ self_timeout = MaxTimeout
    /\ track = TRUE
    /\ InitAdapter

NextPull ==
    \/ Arrive
    \/ ArriveEmpty
    \/ (top_op = "none" /\ CallPullData)
    \/ PullSteps

SpecPull == InitPull /\ [][NextPull]_vars

\* flush, then flush again: as in SpecFlush the device sends any short
\* stream in any frames, empty ones too, before the first flush is called
\* and nothing from then on.
NextFlushTwice ==
    \/ (BeforeFlush /\ Arrive)
    \/ (BeforeFlush /\ ArriveEmpty)
    \/ (top_op = "none" /\ CallPullData)
    \/ (BeforeFlush /\ CallFlush)
    \/ (top_op = "flush" /\ prev_op # "flush" /\ CallFlush)
    \/ PullSteps
    \/ FlushSteps

SpecFlushTwice == InitFlush /\ [][NextFlushTwice]_vars

\* Two callers on one handle, each calling _pull_data or flush once, in
\* any interleaving, while the device sends a short stream.  self.timeout
\* differs from every timeout the calls set.
InitTwoCallers ==
    /\ AnyDevice(Streams({NL, 65}, MaxShort))
    /\ self_timeout = MaxWait
    /\ track = FALSE
    /\ InitAdapter

NextTwoCallers ==
    \/ Arrive
    \/ ArriveEmpty
    \/ (top_op = "none" /\ CallPullData)
    \/ (top_op = "none" /\ CallFlush)
    \/ PullSteps
    \/ FlushSteps
    \/ Caller2Steps

SpecTwoCallers == InitTwoCallers /\ [][NextTwoCallers]_vars

(* ------------------------------------------------------------------ claims *)

\* C8: every operation leaves the transport timeout equal to its value
\* before the call, on every exit path: whenever no _pull_data and no flush
\* is running (between the pulls of an operation, and after the call has
\* returned or raised), the transport timeout is the one the top-level call
\* found.
C8_TimeoutRestored ==
    (~Active("_pull_data") /\ ~Active("flush")) => ws_timeout = t_before

\* A receive_all whose pulls first timed out and then met a transport
\* failure has ended, with the timeout it found.
C8_Witness ==
    /\ top_op = "receive_all"
    /\ outcome = "failure"
    /\ saw_timeout
    /\ ws_timeout = t_before

\* C9: no operation ends with the timeout condition as an error: a call
\* whose recv raised the timeout (and no other failure) ends by returning.
C9_TimeoutNotRaised ==
    /\ outcome # "timeout"
    /\ (Idle /\ saw_timeout /\ ~saw_failure) => outcome = "returned"

\* receive_raw has returned after a recv of it raised the timeout.
C9_Witness ==
    /\ top_op = "receive_raw"
    /\ outcome = "returned"
    /\ saw_timeout

\* C10: a transport failure other than the timeout, raised by recv, ends
\* the operation with that failure: no frame of the call is left running and
\* the caller gets the failure, not a result.
C10_FailurePropagates ==
    saw_failure => (Idle /\ outcome = "failure")

\* receive_all has ended with the failure while bytes were buffered.
C10_Witness ==
    /\ top_op = "receive_all"
    /\ saw_failure
    /\ outcome = "failure"
    /\ buffer # <<>>

(* ---- C1 *)

IsPrefix(a, b) == Len(a) <= Len(b) /\ SubSeq(b, 1, Len(a)) = a

RECURSIVE Concat(_)
Concat(ss) == IF ss = <<>> THEN <<>> ELSE Head(ss) \o Concat(Tail(ss))

EndsWithNewline(v) == v # <<>> /\ v[Len(v)] = NL

\* The newline-terminated values among those _readline returned.
Terminated(vals) == SelectSeq(vals, EndsWithNewline)

\* What successive _readline calls return when the whole stream arrives as
\* one frame: with all of it buffered, each call takes the bytes up to the
\* first newline, as ReadlineLine does.
RECURSIVE SingleFrameLines(_)
SingleFrameLines(bs) ==
    IF Find(bs) = 0 THEN <<>>
    ELSE <<Take(bs, Find(bs))>> \o SingleFrameLines(Drop(bs, Find(bs)))

\* The device has sent everything and the caller has read everything.
AllRead == Idle /\ future = <<>> /\ pending = <<>> /\ buffer = <<>>

\* A call returned, at its deadline, the first bytes of a line whose newline
\* came later.
CutLine ==
    \E i \in 1..Len(h_reads) :
        /\ h_reads[i] # <<>>
        /\ ~EndsWithNewline(h_reads[i])
        /\ Find(Drop(stream0, Len(Concat(SubSeq(h_reads, 1, i))))) # 0

\* C1 as claimed: however the stream is split into frames, the
\* newline-terminated values successive _readline calls return are the lines
\* of the stream delivered as a single frame.
C1_SplitInvarianceClaimed ==
    AllRead => Terminated(h_reads) = SingleFrameLines(stream0)

\* C1 amended: the same, for the runs in which no call reaches its deadline
\* between the first bytes of a line and its newline.  At every moment the
\* newline-terminated values returned so far are the first lines of the
\* single-frame delivery, and all of them once everything is read.
C1_SplitInvariance ==
    (Idle /\ ~CutLine) =>
        /\ IsPrefix(Terminated(h_reads), SingleFrameLines(stream0))
        /\ AllRead => Terminated(h_reads) = SingleFrameLines(stream0)

\* A line longer than any frame has been returned whole, after a call that
\* returned empty-handed at its deadline.
C1_Witness ==
    /\ AllRead
    /\ ~CutLine
    /\ Len(h_reads) >= 2
    /\ h_reads[1] = <<>>
    /\ \E i \in 1..Len(h_reads) :
          Len(h_reads[i]) > MaxFrame /\ EndsWithNewline(h_reads[i])

(* ---- C2 *)

\* receive_raw has returned.
RawReturned == top_op = "receive_raw" /\ outcome = "returned"

\* The bytes that arrived before silence_timeout of silence had elapsed
\* (h_early) are at least max_bytes.
EarlyFull == args.max_bytes # -1 /\ Len(h_early) >= args.max_bytes

\* C2 as claimed: with max_bytes bytes arrived before silence_timeout of
\* silence the result is the first max_bytes bytes of the stream; otherwise
\* it is every byte that arrived before silence_timeout of silence elapsed.
C2_RawResultClaimed ==
    RawReturned =>
        IF EarlyFull THEN ret_bytes = Take(stream0, args.max_bytes)
                     ELSE ret_bytes = h_early

\* C2 amended: the result is a prefix of the stream, no longer than
\* max_bytes; it is the first max_bytes bytes when that many arrived before
\* silence_timeout of silence, and otherwise holds at least every byte that
\* arrived before then (bytes that arrive after silence_timeout of silence
\* and before the loop next looks at the clock are received too).  In the
\* scenario it is the first 10 bytes of the frame.
C2_RawResult ==
    RawReturned =>
        /\ IsPrefix(ret_bytes, stream0)
        /\ args.max_bytes # -1 => Len(ret_bytes) <= args.max_bytes
        /\ IF EarlyFull THEN ret_bytes = Take(stream0, args.max_bytes)
                        ELSE IsPrefix(h_early, ret_bytes)
        /\ scen = "raw15" => ret_bytes = Take(RawStream, RawScenario.max_bytes)

\* receive_raw(max_bytes=2) has returned the first two of three bytes that
\* arrived in time, in two frames.
C2_Witness ==
    /\ RawReturned
    /\ args.max_bytes = 2
    /\ stream0 = <<65, 66, 65>>
    /\ h_early = stream0
    /\ ret_bytes = <<65, 66>>

(* ---- C5 *)

\* C5: _in_waiting called right after flush, with nothing sent by the device
\* since flush was called, returns 0.
C5_FlushDrains ==
    (top_op = "_in_waiting" /\ prev_op = "flush" /\ outcome = "returned")
        => ret_len = 0

(* ---- C6, C7 *)

\* C6: once no non-empty line has appeared for more than silence_timeout,
\* receive_all returns, whatever the device does meanwhile.
C6_ReturnsAfterSilence ==
    (Active("receive_all") /\ idle > op_timeout) ~> ~Active("receive_all")

\* receive_all has returned.
RecvAllReturned == top_op = "receive_all" /\ outcome = "returned"

\* C7: the list receive_all returns has no line that is exactly ">",
\* wherever such a line is in the stream and however it reached the adapter.
C7_NoPromptLine ==
    RecvAllReturned => \A i \in 1..Len(ret_lines) : ret_lines[i] # <<GT>>

\* receive_all has read "A", ">" and "A" as three lines and returned the
\* two "A".
C7_Witness ==
    /\ RecvAllReturned
    /\ stream0 = <<65, NL, GT, NL, 65, NL>>
    /\ h_reads = <<(<<65, NL>>), <<GT, NL>>, <<65, NL>>>>
    /\ ret_lines = <<(<<65>>), <<65>>>>

(* ---- C3, C4 *)

\* receive has returned.
ReceiveReturned == top_op = "receive" /\ outcome = "returned"

\* The first two lines of the stream, and what follows them.
EchoPart(bs) == Concat(Take(SingleFrameLines(bs), 2))
Payload(bs) == Drop(bs, Len(EchoPart(bs)))

\* The stream begins with two newline-terminated lines and receive was
\* called with skip=2.
TwoEchoes == args.skip = 2 /\ Len(SingleFrameLines(stream0)) >= 2

\* receive skipped the two echoed lines, read only payload after them, and
\* every line it returned is the text of something read after them.
OnlyPayload ==
    /\ Concat(h_skipped) = EchoPart(stream0)
    /\ IsPrefix(Concat(h_reads), Payload(stream0))
    /\ \A j \in 1..Len(ret_lines) :
          \E i \in 1..Len(h_reads) : ret_lines[j] = DecodeLine(h_reads[i])

EchoesWhole ==
    \A i \in 1..Len(h_skipped) : EndsWithNewline(h_skipped[i])

RECURSIVE KeptLines(_)
KeptLines(vals) ==
    IF vals = <<>> THEN <<>>
    ELSE (IF DecodeLine(Head(vals)) # <<>> THEN <<DecodeLine(Head(vals))>>
                                           ELSE <<>>)
         \o KeptLines(Tail(vals))

\* The list without its last line when that line ends with ">".
WithoutPrompt(ls) ==
    IF ls # <<>> /\ ls[Len(ls)] # <<>> /\ ls[Len(ls)][Len(ls[Len(ls)])] = GT
    THEN SubSeq(ls, 1, Len(ls) - 1)
    ELSE ls

\* C4: what receive returns is the list of the decoded, trimmed, non-empty
\* lines read after the skipped ones, without the last one when it ends with
\* ">"; in the scenario ("AT\n", "OK", "\n>" with small delays, skip=1,
\* timeout=0.5) that is ["OK"].
C4_ReceiveResult ==
    ReceiveReturned =>
        /\ ret_lines = WithoutPrompt(KeptLines(h_reads))
        /\ scen = "AT" => ret_lines = <<(<<79, 75>>)>>

\* The scenario has been played to its end: receive has returned after the
\* device sent all three frames, the echo skipped and the prompt read.
C4_Witness ==
    /\ ReceiveReturned
    /\ scen = "AT"
    /\ future = <<>>
    /\ h_skipped = <<(<<65, 84, NL>>)>>
    /\ Len(h_reads) = 2
    /\ ret_lines = <<(<<79, 75>>)>>

(* ---- C11, C12 *)

\* C11: stop never ends with a failure, on an open, a broken or a closed
\* transport, and a stop that follows a stop leaves the buffer and the
\* transport as it found them: n calls leave what one call leaves.
C11_StopIdempotent ==
    (Idle /\ top_op = "stop") =>
        /\ outcome = "returned"
        /\ ws_state = "closed"
        /\ prev_op = "stop" => Snapshot = s_before

\* A second stop has returned, with the bytes an earlier _pull_data
\* received still in the buffer.
C11_Witness ==
    /\ Idle
    /\ top_op = "stop"
    /\ prev_op = "stop"
    /\ outcome = "returned"
    /\ buffer # <<>>

\* C12: an operation called after stop does not complete with a result.
C12_NothingAfterClose ==
    (Idle /\ top_op \in ReadWriteOps /\ s_before.ws_state = "closed")
        => outcome # "returned"

(* ---- C13 *)

\* C13: no more than `timeout` passes between the call of
\* _pull_data(timeout) and its return, whatever the device sends meanwhile.
C13_PullBounded ==
    top_op = "_pull_data" => elapsed <= args.timeout

(* ---- C14 *)

IsSuffix(a, b) == Len(a) <= Len(b) /\ SubSeq(b, Len(b) - Len(a) + 1, Len(b)) = a

\* The bytes of the frames waiting at the transport, in order.
RECURSIVE PendingBytes(_)
PendingBytes(fs) ==
    IF fs = <<>> THEN <<>> ELSE FrameBytes(Head(fs)) \o PendingBytes(Tail(fs))

\* The buffer, then the frames waiting, then what the device has still to
\* send, are together the end of the device's stream: the buffer holds a
\* stretch of the stream, bytes in their order, none twice, none foreign.
InOrder == IsSuffix(buffer \o PendingBytes(pending) \o future, stream0)

\* C14: every step leaves the buffer a stretch of the stream in arrival
\* order, and changes it only by adding bytes at its tail or taking bytes
\* from its head; while a _pull_data runs the bytes already buffered stay
\* at the front.
C14_BufferOrder ==
    [][/\ InOrder'
       /\ IsPrefix(buffer, buffer') \/ IsSuffix(buffer', buffer)
       /\ Active("_pull_data") => IsPrefix(buffer, buffer')]_vars

\* _readline has taken "\n" from the head of the buffer and left the "A"
\* that arrived after it.
C14_Witness ==
    /\ top_op = "_readline"
    /\ outcome = "returned"
    /\ stream0 = <<NL, 65>>
    /\ ret_bytes = <<NL>>
    /\ buffer = <<65>>

(* ---- C15 *)

\* C15: with nothing sent by the device since the first flush was called,
\* a flush leaves the buffer empty, the transport drained and the transport
\* timeout as it found it, so that a second flush right after it changes
\* nothing.
C15_FlushTwice ==
    (Idle /\ top_op = "flush" /\ outcome = "returned") =>
        /\ buffer = <<>>
        /\ pending = <<>>
        /\ ws_timeout = s_before.ws_timeout
        /\ prev_op = "flush" => Snapshot = s_before

(* ---- C16 *)

\* _readline is at the top of its loop with no newline buffered and its
\* deadline passed.
AtDeadline == At("_readline", "loop") /\ Find(buffer) = 0 /\ rl_rem <= 0

\* C16: from there the next step is the return, not a failure, of exactly
\* the bytes buffered (none when the buffer is empty); it leaves the buffer
\* empty, and no byte of the stream is lost: the values read so far, then
\* the frames waiting, then what the device has still to send, are the
\* stream.
C16_DeadlineReturn ==
    [][AtDeadline =>
          /\ Idle'
          /\ outcome' = "returned"
          /\ ret_bytes' = buffer
          /\ buffer' = <<>>
          /\ Concat(h_reads') \o PendingBytes(pending') \o future' = stream0]_vars

\* A first _readline returned b"" at its deadline, a second one the "A"
\* that had arrived without a newline by its deadline.
C16_Witness ==
    /\ Idle
    /\ top_op = "_readline"
    /\ outcome = "returned"
    /\ h_reads = <<<<>>, <<65>>>>
    /\ ret_bytes = <<65>>
    /\ buffer = <<>>

(* ---- C17 *)

\* The running or last call is a _readline that found a newline in the
\* buffer when it was called.
LineBuffered == top_op = "_readline" /\ Find(s_before.buffer) # 0

\* C17: such a call, whatever its timeout, never calls _pull_data and
\* changes nothing until it returns; it returns the bytes up to and
\* including the first newline and leaves the rest of the buffer; the
\* transport keeps its state and timeout, and the frames that were waiting
\* still wait (the device may have sent more since the return).
C17_BufferedLine ==
    LineBuffered =>
        /\ Depth <= 1
        /\ ws_timeout = s_before.ws_timeout
        /\ ws_state = s_before.ws_state
        /\ IsPrefix(s_before.pending, pending)
        /\ ~Idle => buffer = s_before.buffer /\ pending = s_before.pending
        /\ Idle =>
              /\ outcome = "returned"
              /\ ret_bytes = Take(s_before.buffer, Find(s_before.buffer))
              /\ buffer = Drop(s_before.buffer, Find(s_before.buffer))

\* _readline(0) called with "\n" buffered and a frame waiting has returned
\* "\n"; the frame still waits.
C17_Witness ==
    /\ Idle
    /\ LineBuffered
    /\ args.timeout = 0
    /\ s_before.buffer = <<NL>>
    /\ s_before.pending # <<>>
    /\ pending = s_before.pending
    /\ ret_bytes = <<NL>>

(* ---- C19 *)

\* The bytes of the stream that the values read so far have not covered
\* when the i-th value is returned.
Unread(i) == Drop(stream0, Len(Concat(SubSeq(h_reads, 1, i - 1))))

\* C19: a value _readline returns holds at most one newline, as its last
\* byte, and then it is the stream from where the last value ended up to
\* and including the first newline; the value returned by a step taken
\* before the deadline ends with a newline, the one returned at the
\* deadline with no newline buffered holds none.
C19_OneNewline ==
    /\ [](\A i \in 1..Len(h_reads) :
            /\ Find(h_reads[i]) \in {0, Len(h_reads[i])}
            /\ Find(h_reads[i]) # 0 =>
                  h_reads[i] = Take(Unread(i), Find(Unread(i))))
    /\ [][(At("_readline", "loop") /\ Idle') =>
             /\ ret_bytes' = h_reads'[Len(h_reads')]
             /\ rl_rem > 0 => EndsWithNewline(ret_bytes')
             /\ AtDeadline => Find(ret_bytes') = 0]_vars

\* Of the stream "A\nA" one _readline returned "A\n" out of a buffer
\* holding "A\nA", and the next, called with "A" buffered, returned "A" at
\* its deadline.
C19_Witness ==
    /\ Idle
    /\ top_op = "_readline"
    /\ stream0 = <<65, NL, 65>>
    /\ h_reads = <<<<65, NL>>, <<65>>>>
    /\ s_before.buffer = <<65>>

(* ---- C18 *)

\* Neither caller is inside a call.
BothQuiet == Idle /\ ~Running2

\* Both callers have made their call.
BothDone == Idle /\ top_op \in {"_pull_data", "flush"} /\ caller2.pc = "done"

\* C18: when the calls of the two callers run one after the other, the
\* transport timeout is back at its value before both calls whenever
\* neither caller is inside a call; the adapter takes no lock, so the calls
\* may overlap (the witness), and then it may not be.
C18_SequentialRestores ==
    (BothQuiet /\ ~caller2.overlap) => ws_timeout = self_timeout

\* Both calls are over, they overlapped, and the transport timeout is left
\* at a value one of them had set.
C18_Witness ==
    /\ BothDone
    /\ caller2.overlap
    /\ outcome = "returned"
    /\ ws_timeout # self_timeout

(* ---- C20 *)

\* C20: when receive, receive_all or receive_raw has returned, the buffer
\* is empty, and all that a later read can be given, the frames waiting
\* and what the device has still to send, is the end of the stream: what
\* receive_raw pulled beyond max_bytes is in neither.
C20_EmptyOnReturn ==
    (Idle /\ top_op \in {"receive", "receive_all", "receive_raw"}
          /\ outcome = "returned") =>
        /\ buffer = <<>>
        /\ IsSuffix(PendingBytes(pending) \o future, stream0)

\* receive_raw has returned "A" of the stream "A\n", all of which had
\* arrived: the "\n" is nowhere.  Only the return at max_bytes drops bytes
\* that receive_raw has pulled, so this is a call with max_bytes = 1 that
\* pulled the "\n" with the "A".
C20_Witness ==
    /\ Idle
    /\ top_op = "receive_raw"
    /\ outcome = "returned"
    /\ stream0 = <<65, NL>>
    /\ ret_bytes = <<65>>
    /\ buffer = <<>>
    /\ pending = <<>>
    /\ future = <<>>

====
